---- MODULE Spec2Model ----
(***************************************************************************)
(* Model of the OmniTrade desktop back end (src/desktop/src-tauri/src):    *)
(* the JSON collection store behind the alert commands, the background     *)
(* price poller with its shared cache, and the daemon supervisor built on  *)
(* a PID marker file.                                                      *)
(*                                                                         *)
(* Strings that the code takes apart (the marker file's content, formatted *)
(* numbers) are sequences of one-character strings.  Option<T> is a        *)
(* sequence of length 0 (None) or 1 (Some).  A Result is a record with     *)
(* ok, value and err.                                                      *)
(***************************************************************************)
EXTENDS Integers, Sequences, FiniteSets, TLC

VARIABLES
    alertsFile,   \* ~/.omnitrade/alerts.json
    clock,        \* the last reading of the system clock, in nanoseconds
    opLog,        \* history: the add/remove invocations that have returned
    ret,          \* the result of the last store command that returned
    inv,          \* concurrent store invocations in flight, per slot
    tick,         \* history: logical time of load and save events
    pidFile,      \* ~/.omnitrade/daemon.pid
    alive,        \* the process ids the OS reports alive
    call,         \* the last supervisor command and what it did
    pollPc,       \* position of price_update_loop
    fetched,      \* the Result of the poll iteration's fetch
    pricesCache,  \* AppState.prices_cache
    cacheLock,    \* holder of the cache mutex
    events,       \* the "prices-update" events emitted so far
    fetchLog,     \* history: every fetch attempt and the state it ran in
    slept,        \* history: the seconds the loop has spent in its sleeps
    cfgFile,      \* ~/.omnitrade/config.json
    cfgRet,       \* the last config command: its arguments, result and effect
    cfgSaved,     \* history: per exchange name, the last entry save_exchange stored
    logFile,      \* ~/.omnitrade/daemon.log
    logLines,     \* history: the lines the daemon has written to daemon.log
    logRet,       \* the last get_daemon_log: its argument, result and what it read
    priceRet,     \* the last get_prices: its argument, request and result
    dcaFile,      \* ~/.omnitrade/dca.json
    dcaRet        \* the last schedule command: its arguments, result and effect

storeVars  == <<alertsFile, clock, opLog, ret, inv, tick>>
daemonVars == <<pidFile, alive, call>>
pollVars   == <<pollPc, fetched, pricesCache, cacheLock, events, fetchLog, slept>>
configVars == <<cfgFile, cfgRet, cfgSaved>>
logVars    == <<logFile, logLines, logRet>>
dcaVars    == <<dcaFile, dcaRet>>
moreVars   == <<configVars, logVars, priceRet, dcaVars>>
vars       == <<storeVars, daemonVars, pollVars, moreVars>>

None == <<>>
Some(v) == <<v>>
Ok(v) == [ok |-> TRUE, value |-> v, err |-> ""]
Err(e) == [ok |-> FALSE, value |-> <<>>, err |-> e]

Range(s) == {s[i] : i \in 1..Len(s)}

(***************************************************************************)
(* Number formatting: format!("{}", n) and format!("{:x}", n).             *)
(***************************************************************************)
Digits == <<"0", "1", "2", "3", "4", "5", "6", "7", "8", "9",
            "a", "b", "c", "d", "e", "f">>

RECURSIVE FormatRadix(_, _)
FormatRadix(n, radix) ==
    IF n < radix THEN <<Digits[n + 1]>>
    ELSE Append(FormatRadix(n \div radix, radix), Digits[(n % radix) + 1])

(***************************************************************************)
(* The alert store (commands/alerts.rs).                                   *)
(***************************************************************************)
MaxOps == 3

NanosPerMilli == 1000000
IdMask == 16777215

\* Clock readings the model draws from: two instants in the same
\* millisecond, and a later one that agrees with the first in its low 24 bits.
Instants == {0, 999999, IdMask + 1}

Symbols == {"BTC/USDT", "ETH/USDT"}
Conditions == {"above"}
Prices == {65000}

\* Utc::now().timestamp_millis()
timestamp_millis(t) == t \div NanosPerMilli

\* generate_id(): the low 24 bits of the nanosecond clock, in hexadecimal
generate_id(t) == FormatRadix(t % (IdMask + 1), 16)

\* format!("alert_{}_{}", millis, generate_id())
AlertId(t1, t2) == <<"alert", FormatRadix(timestamp_millis(t1), 10), generate_id(t2)>>

\* The ids a caller may pass to remove_alert
Ids == {AlertId(t1, t2) : t1 \in Instants, t2 \in Instants}

\* A collection file: whether it exists, whether its content parses as the
\* collection, and the collection it then holds
MissingFile == [exists |-> FALSE, parses |-> FALSE, alerts |-> <<>>]
CorruptFile == [exists |-> TRUE, parses |-> FALSE, alerts |-> <<>>]

\* The message of the serde_json error for a file that does not parse
ParseDiagnostic == "expected value at line 1 column 1"

load_alerts_lenient(file) ==
    IF ~file.exists \/ ~file.parses THEN Ok(<<>>) ELSE Ok(file.alerts)

\* load_alerts(): a missing file loads as the empty vector, a file that
\* does not parse is an error
load_alerts(file) ==
    IF ~file.exists THEN Ok(<<>>)
    ELSE IF ~file.parses THEN Err(ParseDiagnostic)
    ELSE Ok(file.alerts)

\* save_alerts(): overwrite the whole file with {"alerts": [...]}
save_alerts(alerts) == [exists |-> TRUE, parses |-> TRUE, alerts |-> alerts]

\* The Alert built by add_alert from its arguments and three clock readings
NewAlert(symbol, condition, price, t1, t2, t3) ==
    [id          |-> AlertId(t1, t2),
     symbol      |-> symbol,
     condition   |-> condition,
     targetPrice |-> price,
     createdAt   |-> timestamp_millis(t3),
     triggered   |-> FALSE,
     triggeredAt |-> None,
     exchange    |-> Some("binance")]

PushFront(alerts, a) == <<a>> \o alerts

\* alerts.push(new_alert.clone())
Push(alerts, a) == Append(alerts, a)

\* alerts.retain(|a| a.id != id)
Retain(alerts, id) == SelectSeq(alerts, LAMBDA a : a.id # id)

Readings(from) ==
    {r \in Instants \X Instants \X Instants :
        from <= r[1] /\ r[1] <= r[2] /\ r[2] <= r[3]}

\* A log entry: the command, the alert it built or the id it was given, the
\* collection it loaded, when it loaded and saved, and whether it returned Ok
Entry(op, alert, id, base, loadT, saveT) ==
    [op |-> op, alert |-> alert, id |-> id, base |-> base,
     loadT |-> loadT, saveT |-> saveT, ok |-> TRUE]

NoAlert == NewAlert("", "", 0, 0, 0, 0)
IdleInv == [pc |-> "idle", op |-> "", alert |-> NoAlert, id |-> <<>>,
            base |-> <<>>, local |-> <<>>, loadT |-> 0]

InitStore ==
    /\ alertsFile = MissingFile
    /\ clock = 0
    /\ opLog = <<>>
    /\ ret = [op |-> "none", ok |-> TRUE, value |-> <<>>, id |-> <<>>, before |-> <<>>]
    /\ inv = [s \in {1, 2} |-> IdleInv]
    /\ tick = 0

\* get_alerts
get_alerts ==
    /\ LET l == load_alerts(alertsFile)
       IN  ret' = [op |-> "get_alerts", ok |-> l.ok,
                   value |-> IF l.ok THEN l.value ELSE l.err,
                   id |-> <<>>, before |-> l.value]
    /\ UNCHANGED <<alertsFile, clock, opLog, inv, tick>>

\* add_alert(symbol, condition, price)
add_alert(symbol, condition, price) ==
    /\ Len(opLog) < MaxOps
    /\ IF ~load_alerts(alertsFile).ok
       THEN /\ ret' = [op |-> "add_alert", ok |-> FALSE,
                       value |-> load_alerts(alertsFile).err, id |-> <<>>, before |-> <<>>]
            /\ UNCHANGED <<alertsFile, clock, opLog>>
       ELSE \E r \in Readings(clock) :
         LET l      == load_alerts(alertsFile)
             new    == NewAlert(symbol, condition, price, r[1], r[2], r[3])
             alerts == Push(l.value, new)
         IN  /\ alertsFile' = save_alerts(alerts)
             /\ clock' = r[3]
             /\ opLog' = Append(opLog, Entry("add", new, new.id, l.value, tick, tick))
             /\ ret' = [op |-> "add_alert", ok |-> TRUE, value |-> new,
                        id |-> new.id, before |-> l.value]
    /\ UNCHANGED <<inv, tick>>

\* remove_alert(id)
remove_alert(id) ==
    /\ Len(opLog) < MaxOps
    /\ LET l      == load_alerts(alertsFile)
           alerts == Retain(l.value, id)
       IN  IF ~l.ok
           THEN /\ ret' = [op |-> "remove_alert", ok |-> FALSE, value |-> l.err,
                           id |-> id, before |-> <<>>]
                /\ UNCHANGED <<alertsFile, opLog>>
           ELSE /\ alertsFile' = save_alerts(alerts)
                /\ opLog' = Append(opLog, Entry("remove", NoAlert, id, l.value, tick, tick))
                /\ ret' = [op |-> "remove_alert", ok |-> TRUE, value |-> <<>>,
                           id |-> id, before |-> l.value]
    /\ UNCHANGED <<clock, inv, tick>>

AddAlert == \E s \in Symbols, c \in Conditions, p \in Prices : add_alert(s, c, p)
RemoveAlert == \E id \in Ids : remove_alert(id)
GetAlerts == get_alerts

(***************************************************************************)
(* The same commands as overlapping invocations: each is a load and local  *)
(* transform, then a save; no lock is held in between.                     *)
(***************************************************************************)
Slots == {1, 2}

Started == Len(opLog) + Cardinality({s \in Slots : inv[s].pc # "idle"})

\* add_alert up to its save: load_alerts, build the alert, push it
LoadAdd(s) ==
    /\ inv[s].pc = "idle"
    /\ Started < MaxOps
    /\ \E symbol \in Symbols, condition \in Conditions, price \in Prices,
          r \in Readings(clock) :
         LET l   == load_alerts(alertsFile)
             new == NewAlert(symbol, condition, price, r[1], r[2], r[3])
         IN  /\ inv' = [inv EXCEPT ![s] =
                          [pc |-> "loaded", op |-> "add", alert |-> new, id |-> new.id,
                           base |-> l.value, local |-> Push(l.value, new),
                           loadT |-> tick + 1]]
             /\ clock' = r[3]
    /\ tick' = tick + 1
    /\ UNCHANGED <<alertsFile, opLog, ret>>

\* remove_alert up to its save: load_alerts, retain
LoadRemove(s) ==
    /\ inv[s].pc = "idle"
    /\ Started < MaxOps
    /\ \E id \in Ids :
         LET l == load_alerts(alertsFile)
         IN  inv' = [inv EXCEPT ![s] =
                       [pc |-> "loaded", op |-> "remove", alert |-> NoAlert, id |-> id,
                        base |-> l.value, local |-> Retain(l.value, id),
                        loadT |-> tick + 1]]
    /\ tick' = tick + 1
    /\ UNCHANGED <<alertsFile, clock, opLog, ret>>

WrittenFromFile(s) ==
    IF inv[s].op = "add" THEN Push(load_alerts(alertsFile).value, inv[s].alert)
    ELSE Retain(load_alerts(alertsFile).value, inv[s].id)

\* save_alerts(&alerts): what is written is the vector this invocation
\* loaded and transformed
Written(s) == inv[s].local

\* The save of add_alert or remove_alert, and its return
Save(s) ==
    /\ inv[s].pc = "loaded"
    /\ alertsFile' = save_alerts(Written(s))
    /\ opLog' = Append(opLog, Entry(inv[s].op, inv[s].alert, inv[s].id, inv[s].base,
                                    inv[s].loadT, tick + 1))
    /\ ret' = [op |-> IF inv[s].op = "add" THEN "add_alert" ELSE "remove_alert",
               ok |-> TRUE,
               value |-> IF inv[s].op = "add" THEN inv[s].alert ELSE <<>>,
               id |-> inv[s].id, before |-> inv[s].base]
    /\ inv' = [inv EXCEPT ![s] = IdleInv]
    /\ tick' = tick + 1
    /\ UNCHANGED clock

(***************************************************************************)
(* The daemon supervisor (commands/daemon.rs).                             *)
(***************************************************************************)
\* u32::MAX, in decimal digits (TLC's integers are 32 bits wide)
U32MaxDigits == <<"4", "2", "9", "4", "9", "6", "7", "2", "9", "5">>

Whitespace == {" ", "\n", "\t", "\r"}
DecimalDigits == {"0", "1", "2", "3", "4", "5", "6", "7", "8", "9"}

\* str::trim(): drop leading and trailing whitespace
RECURSIVE TrimStart(_)
TrimStart(s) ==
    IF s # <<>> /\ Head(s) \in Whitespace THEN TrimStart(Tail(s)) ELSE s

RECURSIVE TrimEnd(_)
TrimEnd(s) ==
    IF s # <<>> /\ s[Len(s)] \in Whitespace
    THEN TrimEnd(SubSeq(s, 1, Len(s) - 1)) ELSE s

Trim(s) == TrimEnd(TrimStart(s))

DigitValue(c) == CHOOSE d \in 0..9 : Digits[d + 1] = c

RECURSIVE DecimalValue(_)
DecimalValue(s) ==
    IF s = <<>> THEN 0
    ELSE 10 * DecimalValue(SubSeq(s, 1, Len(s) - 1)) + DigitValue(s[Len(s)])

RECURSIVE StripZeros(_)
StripZeros(s) ==
    IF Len(s) > 1 /\ Head(s) = "0" THEN StripZeros(Tail(s)) ELSE s

\* a <= b for digit strings of equal length
RECURSIVE DigitsLeq(_, _)
DigitsLeq(a, b) ==
    \/ a = <<>>
    \/ DigitValue(Head(a)) < DigitValue(Head(b))
    \/ Head(a) = Head(b) /\ DigitsLeq(Tail(a), Tail(b))

FitsU32(digits) ==
    LET d == StripZeros(digits)
    IN  \/ Len(d) < Len(U32MaxDigits)
        \/ Len(d) = Len(U32MaxDigits) /\ DigitsLeq(d, U32MaxDigits)

\* str::parse::<u32>(): an optional "+", then one or more decimal digits,
\* the value no larger than u32::MAX
ParseU32(s) ==
    LET digits == IF s # <<>> /\ Head(s) = "+" THEN Tail(s) ELSE s
    IN  IF s = <<>> THEN Err("cannot parse integer from empty string")
        ELSE IF digits = <<>> \/ \E i \in 1..Len(digits) : digits[i] \notin DecimalDigits
        THEN Err("invalid digit found in string")
        ELSE IF ~FitsU32(digits)
        THEN Err("number too large to fit in target type")
        ELSE Ok(DecimalValue(digits))

\* pid_str.trim().parse()
ParsePid(content) == ParseU32(Trim(content))

Pids == {1, 2}

\* What the marker file may hold: written by the daemon, or by anything else
MarkerContents ==
    {<<"1">>, <<" ", "2", "\n">>, <<"+", "1">>, <<>>, <<"x">>, <<"-", "1">>,
     <<"4", "2", "9", "4", "9", "6", "7", "2", "9", "6">>}

\* Age of the marker file in seconds, when its metadata can be read
Ages == {59, 7500}

SecondsPerHour == 3600
SecondsPerMinute == 60

\* format_duration(seconds)
format_duration(seconds) ==
    LET hours   == seconds \div SecondsPerHour
        minutes == (seconds % SecondsPerHour) \div SecondsPerMinute
    IN  IF hours > 0
        THEN FormatRadix(hours, 10) \o <<"h", " ">> \o FormatRadix(minutes, 10) \o <<"m">>
        ELSE FormatRadix(minutes, 10) \o <<"m">>

NoMarker == [exists |-> FALSE, content |-> <<>>]
Marker(content) == [exists |-> TRUE, content |-> content]

Stopped == [running |-> FALSE, pid |-> None, uptime |-> None]

AlwaysRunning(pid, live) == TRUE

\* is_process_running(pid): the exit status of `kill -0 pid`
is_process_running(pid, live) == pid \in live

NeverRemoved(file, rmOk) == file

\* let _ = fs::remove_file(path): the file is gone unless the removal fails,
\* and a failure is ignored
remove_file(file, rmOk) == IF rmOk THEN NoMarker ELSE file

get_daemon_status_lenient(file, live, meta, rmOk) ==
    IF ~file.exists
    THEN [result |-> Ok(Stopped), file |-> file, rm |-> FALSE]
    ELSE LET pid == ParsePid(file.content)
         IN  IF ~pid.ok
             THEN [result |-> Ok(Stopped), file |-> remove_file(file, rmOk), rm |-> TRUE]
             ELSE IF is_process_running(pid.value, live)
             THEN [result |-> Ok([running |-> TRUE,
                                  pid     |-> Some(pid.value),
                                  uptime  |-> IF meta = None THEN None
                                              ELSE Some(format_duration(meta[1]))]),
                   file |-> file, rm |-> FALSE]
             ELSE [result |-> Ok(Stopped), file |-> remove_file(file, rmOk), rm |-> TRUE]

\* get_daemon_status(): the result, the marker file afterwards, and whether
\* it tried to remove the marker.  meta is the marker's age when its
\* metadata is readable; rmOk is whether a removal would succeed.
get_daemon_status(file, live, meta, rmOk) ==
    IF ~file.exists
    THEN [result |-> Ok(Stopped), file |-> file, rm |-> FALSE]
    ELSE LET pid == ParsePid(file.content)
         IN  IF ~pid.ok
             THEN [result |-> Err(pid.err), file |-> file, rm |-> FALSE]
             ELSE IF is_process_running(pid.value, live)
             THEN [result |-> Ok([running |-> TRUE,
                                  pid     |-> Some(pid.value),
                                  uptime  |-> IF meta = None THEN None
                                              ELSE Some(format_duration(meta[1]))]),
                   file |-> file, rm |-> FALSE]
             ELSE [result |-> Ok(Stopped), file |-> remove_file(file, rmOk), rm |-> TRUE]

Metas == {None} \cup {Some(a) : a \in Ages}

\* What a supervisor command did besides returning: the outcome of the
\* start command it spawned, the outcome of the kill command, the process
\* signalled, whether the signal reached it, and which code removed the
\* marker file and whether that removal succeeded.
NoEffect == [spawn |-> "none", kill |-> "none", pid |-> None, delivered |-> FALSE,
             rmBy |-> "none", rmOk |-> FALSE]

StatusEffect(st, rmOk) ==
    [NoEffect EXCEPT !.rmBy = IF st.rm THEN "status" ELSE "none",
                     !.rmOk = st.rm /\ rmOk]

Call(op, status, result, post, fx) ==
    [op |-> op, pre |-> [pidFile |-> pidFile, alive |-> alive], post |-> post,
     status |-> status, result |-> result, fx |-> fx]

InitDaemon ==
    /\ pidFile = NoMarker
    /\ alive = {}
    /\ call = Call("none", Ok(Stopped), Ok(<<>>), NoMarker, NoEffect)

\* The get_daemon_status command
GetDaemonStatus ==
    \E meta \in Metas, rmOk \in BOOLEAN :
        LET st == get_daemon_status(pidFile, alive, meta, rmOk)
        IN  /\ pidFile' = st.file
            /\ call' = Call("get_daemon_status", st.result, st.result, st.file,
                            StatusEffect(st, rmOk))
            /\ UNCHANGED alive

NeverRefuse(status) == FALSE

\* start_daemon: if status.running { return Err("Daemon is already running") }
AlreadyRunning(status) == status.running

SpawnOutcomes == {"spawn_failed", "exit_nonzero", "exit_zero"}

\* The Result of start_daemon once the running check has passed
StartResult(outcome) ==
    CASE outcome = "spawn_failed"  -> Err("Failed to start daemon: spawn error")
      [] outcome = "exit_nonzero"  -> Err("Daemon failed to start: stderr")
      [] OTHER                     -> Ok(<<>>)

\* start_daemon.  A start command that exits with success has started the
\* daemon as process p, and the daemon may have written its marker file.
StartDaemon ==
    \E meta \in Metas, rmOk \in BOOLEAN :
        LET st == get_daemon_status(pidFile, alive, meta, rmOk)
            fx == StatusEffect(st, rmOk)
        IN  IF ~st.result.ok
            THEN /\ call' = Call("start_daemon", st.result, st.result, st.file, fx)
                 /\ pidFile' = st.file
                 /\ UNCHANGED alive
            ELSE IF AlreadyRunning(st.result.value)
            THEN /\ call' = Call("start_daemon", st.result,
                                 Err("Daemon is already running"), st.file, fx)
                 /\ pidFile' = st.file
                 /\ UNCHANGED alive
            ELSE \E outcome \in SpawnOutcomes :
                 IF outcome = "exit_zero"
                 THEN \E p \in Pids, wrote \in BOOLEAN :
                      /\ alive' = alive \cup {p}
                      /\ pidFile' = IF wrote THEN Marker(FormatRadix(p, 10)) ELSE st.file
                      /\ call' = Call("start_daemon", st.result, StartResult(outcome),
                                      pidFile', [fx EXCEPT !.spawn = outcome])
                 ELSE /\ pidFile' = st.file
                      /\ call' = Call("start_daemon", st.result, StartResult(outcome),
                                      st.file, [fx EXCEPT !.spawn = outcome])
                      /\ UNCHANGED alive

\* stop_daemon: if !status.running { return Err("Daemon is not running") }
NotRunning(status) == ~status.running

KillOutcomes == {"spawn_failed", "ran"}

StopFailsUndelivered(kill, delivered) ==
    IF delivered THEN Ok(<<>>) ELSE Err("Failed to stop daemon: spawn error")

\* The Result of stop_daemon once the running check has passed: only a
\* failure to run the kill command is an error; its exit status is not read
StopResult(kill, delivered) ==
    IF kill = "spawn_failed" THEN Err("Failed to stop daemon: spawn error") ELSE Ok(<<>>)

\* stop_daemon.  The process may exit between the liveness query and the
\* signal (exited); the signal is delivered when kill runs and the process
\* is still there.  The marker is removed only after kill has run.
StopDaemon ==
    \E meta \in Metas, rmOk \in BOOLEAN :
        LET st == get_daemon_status(pidFile, alive, meta, rmOk)
            fx == StatusEffect(st, rmOk)
        IN  IF ~st.result.ok
            THEN /\ call' = Call("stop_daemon", st.result, st.result, st.file, fx)
                 /\ pidFile' = st.file
                 /\ UNCHANGED alive
            ELSE IF NotRunning(st.result.value)
            THEN /\ call' = Call("stop_daemon", st.result,
                                 Err("Daemon is not running"), st.file, fx)
                 /\ pidFile' = st.file
                 /\ UNCHANGED alive
            ELSE \E kill \in KillOutcomes, exited \in BOOLEAN, rmOk2 \in BOOLEAN :
                 LET pid       == st.result.value.pid[1]
                     delivered == kill = "ran" /\ ~exited
                 IN  /\ pidFile' = IF kill = "ran" THEN remove_file(st.file, rmOk2)
                                   ELSE st.file
                     /\ alive' = IF exited THEN alive \ {pid} ELSE alive
                     /\ call' = Call("stop_daemon", st.result, StopResult(kill, delivered),
                                     pidFile',
                                     [fx EXCEPT !.kill = kill,
                                                !.pid = Some(pid),
                                                !.delivered = delivered,
                                                !.rmBy = IF kill = "ran" THEN "stop" ELSE "none",
                                                !.rmOk = kill = "ran" /\ rmOk2])

\* The world outside: something writes the marker file
MarkerWritten ==
    /\ \E c \in MarkerContents : pidFile' = Marker(c)
    /\ UNCHANGED <<alive, call>>

\* The world outside: a process starts or exits
ProcessChange ==
    /\ \E p \in Pids : alive' = IF p \in alive THEN alive \ {p} ELSE alive \cup {p}
    /\ UNCHANGED <<pidFile, call>>

(***************************************************************************)
(* The price poller (main.rs, commands/prices.rs).  Symbols are character  *)
(* sequences; f64 values are counted in tenths.                            *)
(***************************************************************************)
MaxFetches == 3

PollSeconds == 5

USDT == <<"U", "S", "D", "T">>
BTCUSDT == <<"B", "T", "C">> \o USDT
ETHBTC == <<"E", "T", "H", "B", "T", "C">>

EndsWith(s, suffix) ==
    /\ Len(s) >= Len(suffix)
    /\ SubSeq(s, Len(s) - Len(suffix) + 1, Len(s)) = suffix

\* format_symbol(): BTCUSDT becomes BTC/USDT; other symbols are kept
format_symbol(sym) ==
    IF EndsWith(sym, USDT)
    THEN SubSeq(sym, 1, Len(sym) - Len(USDT)) \o <<"/">> \o USDT
    ELSE sym

\* str::parse::<f64>().unwrap_or(0.0) on the decimal strings of the model
ParseOrZero(s) ==
    CASE s = "65000.5"   -> 650005
      [] s = "3.2"       -> 32
      [] s = "1000000.0" -> 10000000
      [] s = "-1.5"      -> -15
      [] OTHER           -> 0

Ticker(symbol, lastPrice, change, volume) ==
    [symbol |-> symbol, lastPrice |-> lastPrice,
     priceChangePercent |-> change, quoteVolume |-> volume]

\* The map closure of fetch_prices_from_binance: one PriceData per ticker
ToPriceData(t) ==
    [symbol    |-> format_symbol(t.symbol),
     price     |-> ParseOrZero(t.lastPrice),
     change24h |-> ParseOrZero(t.priceChangePercent),
     volume24h |-> ParseOrZero(t.quoteVolume)]

\* What the endpoint may answer: no answer at all, or a status and a body
\* that is or is not a JSON array of tickers
Bodies ==
    {<<>>,
     <<Ticker(BTCUSDT, "65000.5", "3.2", "1000000.0")>>,
     <<Ticker(BTCUSDT, "n/a", "-1.5", "1000000.0"),
       Ticker(ETHBTC, "65000.5", "3.2", "")>>}

HttpStatuses == {200, 500}

FetchOutcomes ==
    {[kind |-> "network_error", status |-> 0, wellFormed |-> FALSE, tickers |-> <<>>]}
    \cup {[kind |-> "response", status |-> st, wellFormed |-> FALSE, tickers |-> <<>>] :
            st \in HttpStatuses}
    \cup {[kind |-> "response", status |-> st, wellFormed |-> TRUE, tickers |-> b] :
            st \in HttpStatuses, b \in Bodies}

\* fetch_prices_from_binance(): send() fails on a network error; json()
\* fails on a body that is no array of tickers; the status is not looked at
fetch_prices_from_binance(outcome) ==
    IF outcome.kind = "network_error" THEN Err("error sending request")
    ELSE IF ~outcome.wellFormed THEN Err("error decoding response body")
    ELSE Ok([i \in 1..Len(outcome.tickers) |-> ToPriceData(outcome.tickers[i])])

BreakOnError(result) == IF result.ok THEN "emit" ELSE "done"

EmitAlways(result) == "emit"

\* match ... { Ok(price_data) => emit and store, Err(e) => eprintln }: where
\* the loop goes after the fetch
AfterFetch(result) == IF result.ok THEN "emit" ELSE "sleep"

Merge(cache, data) == cache \o data

\* *cache = price_data
Replace(cache, data) == data

InitPoller ==
    /\ pollPc = "fetch"
    /\ fetched = Err("")
    /\ pricesCache = <<>>
    /\ cacheLock = "free"
    /\ events = <<>>
    /\ fetchLog = <<>>
    /\ slept = 0

\* prices::fetch_prices_from_binance(&symbols).await
PollFetch ==
    /\ pollPc = "fetch"
    /\ Len(fetchLog) < MaxFetches
    /\ \E outcome \in FetchOutcomes :
         LET result == fetch_prices_from_binance(outcome)
         IN  /\ fetched' = result
             /\ fetchLog' = Append(fetchLog,
                               [outcome |-> outcome, result |-> result,
                                slept |-> slept, events |-> events,
                                cache |-> pricesCache])
             /\ pollPc' = AfterFetch(result)
    /\ UNCHANGED <<pricesCache, cacheLock, events, slept>>

\* let _ = app.emit("prices-update", &price_data)
PollEmit ==
    /\ pollPc = "emit"
    /\ events' = Append(events, fetched.value)
    /\ pollPc' = "lock"
    /\ UNCHANGED <<fetched, pricesCache, cacheLock, fetchLog, slept>>

\* state.prices_cache.lock().await
PollLock ==
    /\ pollPc = "lock"
    /\ cacheLock = "free"
    /\ cacheLock' = "poller"
    /\ pollPc' = "store"
    /\ UNCHANGED <<fetched, pricesCache, events, fetchLog, slept>>

\* *cache = price_data; the guard is dropped at the end of the block
PollStore ==
    /\ pollPc = "store"
    /\ pricesCache' = Replace(pricesCache, fetched.value)
    /\ cacheLock' = "free"
    /\ pollPc' = "sleep"
    /\ UNCHANGED <<fetched, events, fetchLog, slept>>

\* tokio::time::sleep(Duration::from_secs(5)).await
PollSleep ==
    /\ pollPc = "sleep"
    /\ slept' = slept + PollSeconds
    /\ pollPc' = "fetch"
    /\ UNCHANGED <<fetched, pricesCache, cacheLock, events, fetchLog>>

PollStep == PollFetch \/ PollEmit \/ PollLock \/ PollStore \/ PollSleep

(***************************************************************************)
(* The exchange credentials (commands/config.rs).  An API key is a         *)
(* sequence of characters; "e'" stands for a character that takes two      *)
(* bytes in UTF-8, every other character takes one.  A command ends by     *)
(* returning Ok or Err, or by a panic.                                     *)
(***************************************************************************)
MaskThreshold == 10
MaskShown == 5

Utf8Len(c) == IF c = "e'" THEN 2 ELSE 1

\* str::len(): the length in bytes
RECURSIVE ByteLen(_)
ByteLen(str) == IF str = <<>> THEN 0 ELSE Utf8Len(Head(str)) + ByteLen(Tail(str))

CharLen(str) == Len(str)

\* str::is_char_boundary(n)
IsCharBoundary(str, n) == \E k \in 0..Len(str) : ByteLen(SubSeq(str, 1, k)) = n

\* &str[..n] and &str[n..] at a character boundary
BytesTo(str, n) ==
    SubSeq(str, 1, CHOOSE k \in 0..Len(str) : ByteLen(SubSeq(str, 1, k)) = n)
BytesFrom(str, n) ==
    SubSeq(str, 1 + (CHOOSE k \in 0..Len(str) : ByteLen(SubSeq(str, 1, k)) = n), Len(str))

Returned(v) == [outcome |-> "ok", value |-> v, err |-> ""]
Failed(e) == [outcome |-> "err", value |-> <<>>, err |-> e]
Panicked(e) == [outcome |-> "panic", value |-> <<>>, err |-> e]

Ellipsis == <<".", ".", ".">>
ShortMask == <<"*", "*", "*">>

\* The redaction with lengths and positions counted in characters
mask_key_by_chars(key) ==
    IF CharLen(key) < MaskThreshold THEN Returned(ShortMask)
    ELSE Returned(SubSeq(key, 1, MaskShown) \o Ellipsis
                  \o SubSeq(key, Len(key) - MaskShown + 1, Len(key)))

\* mask_key(): key.len() counts bytes, and slicing a str off a character
\* boundary panics
mask_key(key) ==
    IF ByteLen(key) < MaskThreshold THEN Returned(ShortMask)
    ELSE IF /\ IsCharBoundary(key, MaskShown)
            /\ IsCharBoundary(key, ByteLen(key) - MaskShown)
    THEN Returned(BytesTo(key, MaskShown) \o Ellipsis
                  \o BytesFrom(key, ByteLen(key) - MaskShown))
    ELSE Panicked("byte index is not a char boundary")

SecretMask == "********"

ApiKeys ==
    {<<"a", "b", "c", "d", "e", "f", "g", "h", "i">>,
     <<"a", "b", "c", "e'", "e'", "x", "y", "z">>,
     <<"e'", "e'", "e'", "e'", "e'">>}
Secrets == {"s3cret", "hunter2"}
ExchangeNames == {"binance", "kraken"}

ExchangeConfig(apiKey, secret, testnet) ==
    [apiKey |-> apiKey, secret |-> secret, testnet |-> testnet]

DefaultSecurity == Some([maxOrderSize |-> 100, confirmTrades |-> TRUE])

NoExchanges == [n \in {} |-> ExchangeConfig(<<>>, "", FALSE)]

\* HashMap::insert
Insert(map, name, entry) ==
    [n \in DOMAIN map \cup {name} |-> IF n = name THEN entry ELSE map[n]]

Config(exchanges, security, notifications) ==
    [exchanges |-> exchanges, security |-> security, notifications |-> notifications]

\* The Config both commands use when config.json does not exist
EmptyConfig == Config(NoExchanges, DefaultSecurity, None)

MissingCfg == [exists |-> FALSE, parses |-> FALSE, config |-> EmptyConfig]
CorruptCfg == [exists |-> TRUE, parses |-> FALSE, config |-> EmptyConfig]
CfgHolding(config) == [exists |-> TRUE, parses |-> TRUE, config |-> config]

\* A config.json written before: one exchange, its own security section and
\* a notifications section
EarlierCfg ==
    CfgHolding(Config(Insert(NoExchanges, "kraken",
                             ExchangeConfig(<<"k", "1", "2", "3", "4", "5", "6", "7", "8",
                                              "9">>, "hunter2", TRUE)),
                      Some([maxOrderSize |-> 25, confirmTrades |-> FALSE]),
                      Some([native |-> Some(TRUE), telegram |-> None, discord |-> None])))

\* fs::read_to_string and serde_json::from_str on config.json
load_config(file) ==
    IF file.parses THEN Ok(file.config) ELSE Err("expected value at line 1 column 1")

\* The masking loop of get_config; a panic in mask_key ends the command
Masked(config) ==
    IF \E n \in DOMAIN config.exchanges : mask_key(config.exchanges[n].apiKey).outcome = "panic"
    THEN Panicked("byte index is not a char boundary")
    ELSE Returned([config EXCEPT !.exchanges =
                     [n \in DOMAIN config.exchanges |->
                        ExchangeConfig(mask_key(config.exchanges[n].apiKey).value,
                                       SecretMask,
                                       config.exchanges[n].testnet)]])

\* get_omnitrade_dir(): dirs::home_dir().expect(...)
HomePanic == Panicked("Could not find home directory")

\* get_config(): the result; home is whether the home directory resolves
get_config(file, home) ==
    IF ~home THEN HomePanic
    ELSE IF ~file.exists THEN Returned(EmptyConfig)
    ELSE IF ~load_config(file).ok THEN Failed(load_config(file).err)
    ELSE Masked(load_config(file).value)

save_exchange_masked(file, home, name, apiKey, secret, testnet) ==
    IF ~home THEN [result |-> HomePanic, file |-> file]
    ELSE IF file.exists /\ ~load_config(file).ok
    THEN [result |-> Failed(load_config(file).err), file |-> file]
    ELSE LET config == IF file.exists THEN load_config(file).value ELSE EmptyConfig
         IN  [result |-> Returned(<<>>),
              file |-> CfgHolding([config EXCEPT !.exchanges =
                          Insert(config.exchanges, name,
                                 ExchangeConfig(mask_key(apiKey).value, SecretMask,
                                                testnet))])]

\* save_exchange(): the result and config.json afterwards
save_exchange(file, home, name, apiKey, secret, testnet) ==
    IF ~home THEN [result |-> HomePanic, file |-> file]
    ELSE IF file.exists /\ ~load_config(file).ok
    THEN [result |-> Failed(load_config(file).err), file |-> file]
    ELSE LET config == IF file.exists THEN load_config(file).value ELSE EmptyConfig
         IN  [result |-> Returned(<<>>),
              file |-> CfgHolding([config EXCEPT !.exchanges =
                          Insert(config.exchanges, name,
                                 ExchangeConfig(apiKey, secret, testnet))])]

CfgCall(op, name, entry, result, post) ==
    [op |-> op, name |-> name, entry |-> entry, pre |-> cfgFile,
     result |-> result, post |-> post]

InitConfig ==
    /\ cfgFile = MissingCfg
    /\ cfgRet = CfgCall("none", "", ExchangeConfig(<<>>, "", FALSE), Returned(<<>>),
                        MissingCfg)
    /\ cfgSaved = NoExchanges

\* The get_config command
GetConfig ==
    \E home \in BOOLEAN :
        /\ cfgRet' = CfgCall("get_config", "", ExchangeConfig(<<>>, "", FALSE),
                             get_config(cfgFile, home), cfgFile)
        /\ UNCHANGED <<cfgFile, cfgSaved>>

\* The save_exchange command
SaveExchange ==
    \E home \in BOOLEAN, name \in ExchangeNames, apiKey \in ApiKeys,
       secret \in Secrets, testnet \in BOOLEAN :
        LET r == save_exchange(cfgFile, home, name, apiKey, secret, testnet)
        IN  /\ cfgFile' = r.file
            /\ cfgRet' = CfgCall("save_exchange", name,
                                 ExchangeConfig(apiKey, secret, testnet), r.result, r.file)
            /\ cfgSaved' = IF r.result.outcome = "ok"
                           THEN Insert(cfgSaved, name, ExchangeConfig(apiKey, secret, testnet))
                           ELSE cfgSaved

(***************************************************************************)
(* The daemon's log (commands/daemon.rs, get_daemon_log).  daemon.log is a *)
(* sequence of characters that the daemon extends line by line.            *)
(***************************************************************************)
MaxLines == 3

LineTexts == {<<>>, <<"a">>, <<"b", "c">>}
LineEndings == {<<"\n">>, <<"\r", "\n">>}

StripCR(line) ==
    IF line # <<>> /\ line[Len(line)] = "\r" THEN SubSeq(line, 1, Len(line) - 1) ELSE line

\* str::lines(): the text between line feeds, without the line ending; what
\* follows the last line feed is a line only when it is not empty
RECURSIVE LinesFrom(_, _, _)
LinesFrom(rest, cur, acc) ==
    IF rest = <<>> THEN (IF cur = <<>> THEN acc ELSE Append(acc, cur))
    ELSE IF Head(rest) = "\n" THEN LinesFrom(Tail(rest), <<>>, Append(acc, StripCR(cur)))
    ELSE LinesFrom(Tail(rest), Append(cur, Head(rest)), acc)

Lines(content) == LinesFrom(content, <<>>, <<>>)

FirstLines(all_lines, lines) ==
    SubSeq(all_lines, 1, IF Len(all_lines) > lines THEN lines ELSE Len(all_lines))

\* all_lines[start..] with start counted from the end
LastLines(all_lines, lines) ==
    LET start == IF Len(all_lines) > lines THEN Len(all_lines) - lines ELSE 0
    IN  SubSeq(all_lines, start + 1, Len(all_lines))

NoLog == [exists |-> FALSE, content |-> <<>>]

\* get_daemon_log(lines); home is whether the home directory resolves
get_daemon_log(file, home, lines) ==
    IF ~home THEN HomePanic
    ELSE IF ~file.exists THEN Returned(<<>>)
    ELSE Returned(LastLines(Lines(file.content), lines))

InitLog ==
    /\ logFile = NoLog
    /\ logLines = <<>>
    /\ logRet = [op |-> "none", lines |-> 0, written |-> <<>>, exists |-> FALSE,
                 result |-> Returned(<<>>)]

\* The get_daemon_log command
GetDaemonLog ==
    \E home \in BOOLEAN, lines \in 0..(MaxLines + 1) :
        /\ logRet' = [op |-> "get_daemon_log", lines |-> lines, written |-> logLines,
                      exists |-> logFile.exists,
                      result |-> get_daemon_log(logFile, home, lines)]
        /\ UNCHANGED <<logFile, logLines>>

\* The daemon creates daemon.log when it starts logging
LogCreated ==
    /\ ~logFile.exists
    /\ logFile' = [exists |-> TRUE, content |-> <<>>]
    /\ UNCHANGED <<logLines, logRet>>

\* The daemon appends one line and its line ending
LineWritten ==
    /\ logFile.exists
    /\ Len(logLines) < MaxLines
    /\ \E text \in LineTexts, ending \in LineEndings :
        /\ logFile' = [logFile EXCEPT !.content = @ \o text \o ending]
        /\ logLines' = Append(logLines, text)
    /\ UNCHANGED logRet

(***************************************************************************)
(* On-demand prices (commands/prices.rs, get_prices).  The command is      *)
(* given no handle on the application state.                               *)
(***************************************************************************)
Slash == "/"
BTC_USDT == <<"B", "T", "C", Slash>> \o USDT
ETH_BTC == <<"E", "T", "H", Slash, "B", "T", "C">>

Requests == {<<BTC_USDT>>, <<ETH_BTC, BTC_USDT>>}

\* s.replace("/", "")
RemoveSlash(s) == SelectSeq(s, LAMBDA c : c # Slash)

BinanceSymbols(symbols) == [i \in 1..Len(symbols) |-> RemoveSlash(symbols[i])]

\* What the endpoint may answer to a request: no answer, an error status
\* with a body that is no array, or one ticker per requested symbol
Answers(request) ==
    {[kind |-> "network_error", status |-> 0, wellFormed |-> FALSE, tickers |-> <<>>],
     [kind |-> "response", status |-> 500, wellFormed |-> FALSE, tickers |-> <<>>],
     [kind |-> "response", status |-> 200, wellFormed |-> TRUE,
      tickers |-> [i \in 1..Len(request) |->
                     Ticker(request[i], "65000.5", "3.2", "1000000.0")]]}

get_prices_caching(symbols, outcome, cache, published) ==
    LET result == fetch_prices_from_binance(outcome)
    IN  [request |-> BinanceSymbols(symbols), result |-> result,
         cache |-> IF result.ok THEN Replace(cache, result.value) ELSE cache,
         events |-> IF result.ok THEN Append(published, result.value) ELSE published]

\* get_prices(): the request sent, the result, and the cache and the events
\* afterwards
get_prices(symbols, outcome, cache, published) ==
    [request |-> BinanceSymbols(symbols),
     result |-> fetch_prices_from_binance(outcome),
     cache |-> cache,
     events |-> published]

InitPrices ==
    priceRet = [op |-> "none", symbols |-> <<>>, request |-> <<>>, result |-> Err("")]

\* The get_prices command
GetPrices ==
    \E symbols \in Requests :
        \E outcome \in Answers(BinanceSymbols(symbols)) :
            LET r == get_prices(symbols, outcome, pricesCache, events)
            IN  /\ priceRet' = [op |-> "get_prices", symbols |-> symbols,
                                request |-> r.request, result |-> r.result]
                /\ pricesCache' = r.cache
                /\ events' = r.events
                /\ UNCHANGED <<pollPc, fetched, cacheLock, fetchLog, slept>>

(***************************************************************************)
(* The recurring-purchase schedules (commands/dca.rs).  The application    *)
(* reads dca.json and toggles schedules; the schedules themselves are      *)
(* written by the other programs that share the data directory.            *)
(***************************************************************************)
DCAConfig(id, asset, enabled, last_run, executions) ==
    [id |-> id, asset |-> asset, amount |-> 50, frequency |-> "weekly",
     enabled |-> enabled, lastRun |-> last_run, nextRun |-> None,
     executions |-> executions]

ScheduleIds == {"dca_1", "dca_9"}

MissingDca == [exists |-> FALSE, parses |-> FALSE, configs |-> <<>>]
CorruptDca == [exists |-> TRUE, parses |-> FALSE, configs |-> <<>>]

\* save_dca_configs(): overwrite the whole file with {"configs": [...]}
save_dca_configs(configs) == [exists |-> TRUE, parses |-> TRUE, configs |-> configs]

\* What dca.json may hold when another program has written it: something
\* that does not parse, or schedules, two of which have the same id
WrittenSchedules ==
    {CorruptDca,
     save_dca_configs(<<DCAConfig("dca_1", "BTC", FALSE, None, 0),
                        DCAConfig("dca_2", "ETH", TRUE, Some(1700000000), 3),
                        DCAConfig("dca_1", "SOL", FALSE, None, 0)>>)}

\* load_dca_configs(): a missing file loads as the empty vector, a file that
\* does not parse is an error
load_dca_configs(file) ==
    IF ~file.exists THEN Ok(<<>>)
    ELSE IF ~file.parses THEN Err(ParseDiagnostic)
    ELSE Ok(file.configs)

ToggledAll(configs, id, enabled) ==
    [i \in 1..Len(configs) |->
        IF configs[i].id = id THEN [configs[i] EXCEPT !.enabled = enabled] ELSE configs[i]]

\* for config in configs.iter_mut() { if config.id == id { config.enabled =
\* enabled; break; } }
Toggled(configs, id, enabled) ==
    LET matches == {i \in 1..Len(configs) : configs[i].id = id}
    IN  IF matches = {} THEN configs
        ELSE LET first == CHOOSE i \in matches : \A j \in matches : i <= j
             IN  [configs EXCEPT ![first].enabled = enabled]

DcaCall(op, id, enabled, result, before, post) ==
    [op |-> op, id |-> id, enabled |-> enabled, ok |-> result.ok,
     value |-> IF result.ok THEN result.value ELSE result.err,
     before |-> before, post |-> post]

InitDca ==
    /\ dcaFile = MissingDca
    /\ dcaRet = [op |-> "none", id |-> "", enabled |-> FALSE, ok |-> TRUE, value |-> <<>>,
                 before |-> <<>>, post |-> MissingDca]

\* get_dca_configs
get_dca_configs ==
    /\ dcaRet' = DcaCall("get_dca_configs", "", FALSE, load_dca_configs(dcaFile),
                         load_dca_configs(dcaFile).value, dcaFile)
    /\ UNCHANGED dcaFile

\* toggle_dca(id, enabled)
toggle_dca(id, enabled) ==
    LET l == load_dca_configs(dcaFile)
    IN  IF ~l.ok
        THEN /\ dcaRet' = DcaCall("toggle_dca", id, enabled, l, <<>>, dcaFile)
             /\ UNCHANGED dcaFile
        ELSE /\ dcaFile' = save_dca_configs(Toggled(l.value, id, enabled))
             /\ dcaRet' = DcaCall("toggle_dca", id, enabled, Ok(<<>>), l.value, dcaFile')

GetDcaConfigs == get_dca_configs
ToggleDca == \E id \in ScheduleIds, enabled \in BOOLEAN : toggle_dca(id, enabled)

\* Another program writes dca.json
SchedulesWritten ==
    /\ \E f \in WrittenSchedules : dcaFile' = f
    /\ UNCHANGED dcaRet

Init == InitStore /\ InitDaemon /\ InitPoller /\ InitConfig /\ InitLog /\ InitPrices /\ InitDca

Next ==
    \/ AddAlert /\ UNCHANGED <<daemonVars, pollVars, moreVars>>
    \/ RemoveAlert /\ UNCHANGED <<daemonVars, pollVars, moreVars>>
    \/ GetAlerts /\ UNCHANGED <<daemonVars, pollVars, moreVars>>

\* Serial invocations of the alert commands
Spec == Init /\ [][Next]_vars

NextConcurrent ==
    \/ (\E s \in Slots : LoadAdd(s)) /\ UNCHANGED <<daemonVars, pollVars, moreVars>>
    \/ (\E s \in Slots : LoadRemove(s)) /\ UNCHANGED <<daemonVars, pollVars, moreVars>>
    \/ (\E s \in Slots : Save(s)) /\ UNCHANGED <<daemonVars, pollVars, moreVars>>

\* Overlapping invocations of the alert commands
SpecConcurrent == Init /\ [][NextConcurrent]_vars

NextPoller ==
    \/ PollFetch /\ UNCHANGED <<storeVars, daemonVars, moreVars>>
    \/ PollEmit /\ UNCHANGED <<storeVars, daemonVars, moreVars>>
    \/ PollLock /\ UNCHANGED <<storeVars, daemonVars, moreVars>>
    \/ PollStore /\ UNCHANGED <<storeVars, daemonVars, moreVars>>
    \/ PollSleep /\ UNCHANGED <<storeVars, daemonVars, moreVars>>

\* The background price_update_loop
SpecPoller == Init /\ [][NextPoller]_vars

\* config.json as the commands may find it when the application starts
InitConfigAny ==
    /\ InitStore /\ InitDaemon /\ InitPoller /\ InitLog /\ InitPrices /\ InitDca
    /\ cfgFile \in {MissingCfg, CorruptCfg, EarlierCfg}
    /\ cfgRet = [op |-> "none", name |-> "", entry |-> ExchangeConfig(<<>>, "", FALSE),
                 pre |-> cfgFile, result |-> Returned(<<>>), post |-> cfgFile]
    /\ cfgSaved = NoExchanges

NextConfig ==
    \/ GetConfig /\ UNCHANGED <<storeVars, daemonVars, pollVars, logVars, priceRet, dcaVars>>
    \/ SaveExchange /\ UNCHANGED <<storeVars, daemonVars, pollVars, logVars, priceRet, dcaVars>>

\* Serial invocations of the config commands
SpecConfig == InitConfigAny /\ [][NextConfig]_vars

NextLog ==
    \/ GetDaemonLog /\ UNCHANGED <<storeVars, daemonVars, pollVars, configVars, priceRet, dcaVars>>
    \/ LogCreated /\ UNCHANGED <<storeVars, daemonVars, pollVars, configVars, priceRet, dcaVars>>
    \/ LineWritten /\ UNCHANGED <<storeVars, daemonVars, pollVars, configVars, priceRet, dcaVars>>

\* The log tail, with the daemon writing its log
SpecLog == Init /\ [][NextLog]_vars

NextPrices ==
    \/ PollFetch /\ UNCHANGED <<storeVars, daemonVars, moreVars>>
    \/ PollEmit /\ UNCHANGED <<storeVars, daemonVars, moreVars>>
    \/ PollLock /\ UNCHANGED <<storeVars, daemonVars, moreVars>>
    \/ PollStore /\ UNCHANGED <<storeVars, daemonVars, moreVars>>
    \/ PollSleep /\ UNCHANGED <<storeVars, daemonVars, moreVars>>
    \/ GetPrices /\ UNCHANGED <<storeVars, daemonVars, configVars, logVars, dcaVars>>

\* The poller and on-demand get_prices calls side by side
SpecPrices == Init /\ [][NextPrices]_vars

\* The application started on an alerts.json that does not parse
InitCollections ==
    /\ InitDaemon /\ InitPoller /\ InitConfig /\ InitLog /\ InitPrices /\ InitDca
    /\ alertsFile = CorruptFile
    /\ clock = 0
    /\ opLog = <<>>
    /\ ret = [op |-> "none", ok |-> TRUE, value |-> <<>>, id |-> <<>>, before |-> <<>>]
    /\ inv = [s \in {1, 2} |-> IdleInv]
    /\ tick = 0

NextCollections ==
    \/ AddAlert /\ UNCHANGED <<daemonVars, pollVars, moreVars>>
    \/ RemoveAlert /\ UNCHANGED <<daemonVars, pollVars, moreVars>>
    \/ GetAlerts /\ UNCHANGED <<daemonVars, pollVars, moreVars>>
    \/ GetDcaConfigs /\ UNCHANGED <<storeVars, daemonVars, pollVars, configVars, logVars, priceRet>>
    \/ ToggleDca /\ UNCHANGED <<storeVars, daemonVars, pollVars, configVars, logVars, priceRet>>
    \/ SchedulesWritten /\ UNCHANGED <<storeVars, daemonVars, pollVars, configVars, logVars, priceRet>>

\* The alert and schedule commands one at a time, with dca.json written by
\* other programs
SpecCollections == InitCollections /\ [][NextCollections]_vars

NextDaemon ==
    \/ GetDaemonStatus /\ UNCHANGED <<storeVars, pollVars, moreVars>>
    \/ StartDaemon /\ UNCHANGED <<storeVars, pollVars, moreVars>>
    \/ StopDaemon /\ UNCHANGED <<storeVars, pollVars, moreVars>>
    \/ MarkerWritten /\ UNCHANGED <<storeVars, pollVars, moreVars>>
    \/ ProcessChange /\ UNCHANGED <<storeVars, pollVars, moreVars>>

\* The supervisor commands and the world they watch
SpecDaemon == Init /\ [][NextDaemon]_vars

(***************************************************************************)
(* Claims about the alert store under serial invocation (Spec).            *)
(***************************************************************************)

\* The alerts of the add entries of the log that no later remove entry names
RECURSIVE Surviving(_, _)
Surviving(log, i) ==
    IF i > Len(log) THEN <<>>
    ELSE (IF /\ log[i].op = "add"
             /\ \A j \in (i + 1)..Len(log) :
                    ~(log[j].op = "remove" /\ log[j].id = log[i].alert.id)
          THEN <<log[i].alert>> ELSE <<>>) \o Surviving(log, i + 1)

\* C1: starting from a missing alerts.json, after any serial sequence of
\* add_alert and remove_alert calls get_alerts returns the alerts the adds
\* returned, in insertion order, minus those whose id a later remove_alert
\* was given; a remove_alert whose id is not in the collection returns
\* success and leaves the collection as it was loaded.
C1_SerialAddRemove ==
    /\ load_alerts(alertsFile) = Ok(Surviving(opLog, 1))
    /\ ret.op = "get_alerts" => ret.ok /\ ret.value = Surviving(opLog, 1)
    /\ ret.op = "add_alert" => ret.ok /\ ret.value = opLog[Len(opLog)].alert
    /\ (ret.op = "remove_alert" /\ \A a \in Range(ret.before) : a.id # ret.id) =>
          ret.ok /\ load_alerts(alertsFile) = Ok(ret.before)

\* C1 witness: two adds, a remove of one of them, and a get_alerts that
\* returns the one that is left.
C1_Witness ==
    /\ ret.op = "get_alerts"
    /\ Len(opLog) = 3
    /\ opLog[1].op = "add" /\ opLog[2].op = "add" /\ opLog[3].op = "remove"
    /\ opLog[3].id = opLog[1].alert.id
    /\ ret.value = <<opLog[2].alert>>

(***************************************************************************)
(* Claims about overlapping store invocations (SpecConcurrent).            *)
(***************************************************************************)

\* C19: alert ids are unique, also for calls within the same clock reading:
\* alerts.json never holds two alerts with the same id, and a remove_alert
\* removes at most one alert.
C19_AlertIdsUnique ==
    /\ \A i, j \in 1..Len(alertsFile.alerts) :
          i # j => alertsFile.alerts[i].id # alertsFile.alerts[j].id
    /\ \A k \in 1..Len(opLog) :
          opLog[k].op = "remove" =>
              Cardinality({i \in 1..Len(opLog[k].base) :
                              opLog[k].base[i].id = opLog[k].id}) <= 1

\* Entry j loaded before entry i saved, and saved after it
Overlapped(i, j) == i < j /\ opLog[j].loadT < opLog[i].saveT

\* C9: no lock spans load-transform-save: when two invocations on the
\* collection overlap so that the later writer loaded before the earlier one
\* saved, both return success and the file holds the later writer's result
\* computed from what it loaded; the earlier writer's change (an alert it
\* added, a removal it made) is not in it.
C9_LaterWriterWins ==
    \A i \in 1..Len(opLog) :
        LET j   == Len(opLog)
            e   == opLog[j]
            p   == opLog[i]
            now == load_alerts(alertsFile).value
        IN  Overlapped(i, j) =>
              /\ p.ok /\ e.ok
              /\ e.op = "add" => now = e.base \o <<e.alert>>
              /\ e.op = "remove" =>
                    now = SelectSeq(e.base, LAMBDA a : a.id # e.id)
              /\ (/\ p.op = "add"
                  /\ p.alert \notin Range(e.base)
                  /\ ~(e.op = "add" /\ e.alert = p.alert)) =>
                    p.alert \notin Range(now)
              /\ (p.op = "remove" /\ ~(e.op = "remove" /\ e.id = p.id)) =>
                    \A a \in Range(e.base) : a.id = p.id => a \in Range(now)

\* C9 witness: two add_alert invocations both loaded the missing file, both
\* saved, and only the alert of the second to save is in the file.
C9_Witness ==
    /\ Len(opLog) = 2
    /\ Overlapped(1, 2)
    /\ opLog[1].op = "add" /\ opLog[2].op = "add"
    /\ opLog[1].alert # opLog[2].alert
    /\ alertsFile = save_alerts(<<opLog[2].alert>>)

(***************************************************************************)
(* Claims about the price poller (SpecPoller).                             *)
(***************************************************************************)

\* The snapshot lists of the fetches that returned Ok, in order
OkValues ==
    LET ok == SelectSeq(fetchLog, LAMBDA e : e.result.ok)
    IN  [i \in 1..Len(ok) |-> ok[i].result.value]

Front(s) == SubSeq(s, 1, Len(s) - 1)

\* A failed fetch as the specification counts it: a network error, a status
\* outside 2xx, or a body that is no array of tickers
FailedFetch(outcome) ==
    \/ outcome.kind = "network_error"
    \/ outcome.status < 200 \/ outcome.status > 299
    \/ ~outcome.wellFormed

\* C5: whenever a background fetch fails (network error, non-2xx response,
\* malformed payload) the cache is left as it was, no event is published,
\* and the next fetch comes only after the 5-second sleep.
C5_FailedFetchChangesNothing ==
    \A i \in 1..Len(fetchLog) :
        FailedFetch(fetchLog[i].outcome) =>
            IF i = Len(fetchLog)
            THEN /\ pricesCache = fetchLog[i].cache
                 /\ events = fetchLog[i].events
                 /\ pollPc \in {"sleep", "fetch"}
            ELSE /\ fetchLog[i + 1].cache = fetchLog[i].cache
                 /\ fetchLog[i + 1].events = fetchLog[i].events
                 /\ fetchLog[i + 1].slept = fetchLog[i].slept + PollSeconds

C8_FetchAndSleepAlternate ==
    /\ pollPc \in {"fetch", "emit", "lock", "store", "sleep"}
    /\ \A i \in 1..Len(fetchLog) : fetchLog[i].slept = (i - 1) * PollSeconds
    /\ slept = PollSeconds * (IF pollPc = "fetch" THEN Len(fetchLog)
                              ELSE Len(fetchLog) - 1)
    /\ (pollPc # "fetch" \/ Len(fetchLog) < MaxFetches) => ENABLED PollStep

\* C8 witness: after a failed and a successful attempt the loop has slept
\* twice and is about to fetch again.
C8_Witness ==
    /\ Len(fetchLog) = 2
    /\ ~fetchLog[1].result.ok /\ fetchLog[2].result.ok
    /\ slept = 2 * PollSeconds
    /\ pollPc = "fetch"

(***************************************************************************)
(* Claims about the daemon supervisor (SpecDaemon).                        *)
(***************************************************************************)

\* The marker of the state a command ran in names a live / a dead process
PreParsed == ParsePid(call.pre.pidFile.content)
PreLive == call.pre.pidFile.exists /\ PreParsed.ok /\ PreParsed.value \in call.pre.alive
PreDead == call.pre.pidFile.exists /\ PreParsed.ok /\ PreParsed.value \notin call.pre.alive

\* C2: start_daemon called while the status is Running fails with "already
\* running" and spawns nothing; stop_daemon called while the status is
\* Stopped fails with the distinct "not running", sends no signal and does
\* no marker removal of its own.
C2_RefusedInWrongState ==
    /\ (call.op = "start_daemon" /\ call.status.ok /\ call.status.value.running) =>
          /\ call.result = Err("Daemon is already running")
          /\ call.fx.spawn = "none"
    /\ (call.op = "stop_daemon" /\ call.status.ok /\ ~call.status.value.running) =>
          /\ call.result = Err("Daemon is not running")
          /\ call.result # Err("Daemon is already running")
          /\ call.fx.kill = "none"
          /\ call.fx.rmBy # "stop"

\* C2 witness: start_daemon refused while the recorded process is alive.
C2_Witness ==
    /\ call.op = "start_daemon"
    /\ PreLive
    /\ call.result = Err("Daemon is already running")

\* C3: get_daemon_status returns running with pid p exactly when the marker
\* exists, parses to p and p is alive; with no marker, or a marker naming a
\* dead process, it returns not running with neither pid nor uptime.
C3_StatusFollowsMarkerAndLiveness ==
    call.op = "get_daemon_status" =>
        /\ (call.result.ok /\ call.result.value.running) <=> PreLive
        /\ PreLive => call.result.value.pid = Some(PreParsed.value)
        /\ (~call.pre.pidFile.exists \/ PreDead) => call.result = Ok(Stopped)

\* C3 witness: a marker holding " 2\n" while process 2 is alive is reported
\* as running with pid 2.
C3_Witness ==
    /\ call.op = "get_daemon_status"
    /\ call.pre.pidFile = Marker(<<" ", "2", "\n">>)
    /\ call.result.ok
    /\ call.result.value.running
    /\ call.result.value.pid = Some(2)

\* C4 as stated: a status query that finds a dead process id reports stopped
\* and the marker no longer exists afterwards; in the other outcomes the
\* marker is untouched.
C4_StaleMarkerGone ==
    call.op = "get_daemon_status" =>
        /\ PreDead => call.result = Ok(Stopped) /\ ~call.post.exists
        /\ (~call.pre.pidFile.exists \/ PreLive) => call.post = call.pre.pidFile

\* C4 amended: a status query that finds a dead process id reports stopped
\* and tries to remove the marker, ignoring a failure: the marker is gone
\* afterwards when the removal succeeds and is left as it was when it
\* fails; in the other outcomes no removal is tried and the marker is
\* untouched.
C4_StaleMarkerRemovalAttempted ==
    call.op = "get_daemon_status" =>
        /\ PreDead =>
              /\ call.result = Ok(Stopped)
              /\ call.fx.rmBy = "status"
              /\ call.fx.rmOk => ~call.post.exists
              /\ ~call.fx.rmOk => call.post = call.pre.pidFile
        /\ ~PreDead =>
              /\ call.fx.rmBy = "none"
              /\ call.post = call.pre.pidFile

\* C4 witness: a status query found a dead process id and removed the marker.
C4_Witness ==
    /\ call.op = "get_daemon_status"
    /\ PreDead
    /\ call.fx.rmBy = "status"
    /\ ~call.post.exists

\* C10: every process-control failure is returned as a failure: start_daemon
\* fails when the start command cannot be spawned or exits nonzero, and
\* stop_daemon fails when the signal cannot be delivered to the recorded
\* process.
C10_ProcessControlFailureSurfaced ==
    /\ (call.op = "start_daemon" /\ call.fx.spawn \in {"spawn_failed", "exit_nonzero"}) =>
          ~call.result.ok
    /\ (call.op = "stop_daemon" /\ call.fx.pid # None /\ ~call.fx.delivered) =>
          ~call.result.ok

UnparseableMarker == call.pre.pidFile.exists /\ ~PreParsed.ok

\* C21: when the marker file exists but its content does not parse as a
\* process id, get_daemon_status returns a failure, not a stopped status, and
\* leaves the marker file in place; start_daemon and stop_daemon called in
\* that state return the same failure, spawn nothing and signal nothing, so
\* the failure stays until the marker file is changed from outside.
C21_UnparseableMarkerFailsAndStays ==
    (call.op \in {"get_daemon_status", "start_daemon", "stop_daemon"} /\ UnparseableMarker) =>
        /\ ~call.result.ok
        /\ call.result = Err(PreParsed.err)
        /\ call.result =
             get_daemon_status(call.pre.pidFile, call.pre.alive, None, TRUE).result
        /\ call.post = call.pre.pidFile
        /\ call.fx = NoEffect

\* stop_daemon has failed on a marker whose number does not fit a process
\* id, while a process is alive, and the marker is still there
C21_Witness ==
    /\ call.op = "stop_daemon"
    /\ UnparseableMarker
    /\ Len(call.pre.pidFile.content) > 1
    /\ call.pre.alive # {}
    /\ ~call.result.ok
    /\ pidFile = call.pre.pidFile

PassedRunningCheck == call.op = "stop_daemon" /\ call.fx.pid # None

GotConfig ==
    /\ cfgRet.op = "get_config"
    /\ cfgRet.pre.exists /\ cfgRet.pre.parses
    /\ cfgRet.result # HomePanic

\* C11: get_config returns every stored API key redacted by its length in
\* characters (fewer than 10 characters: "***"; otherwise its first five
\* characters, "..." and its last five characters) and every secret as
\* "********".
C11_KeysMaskedByCharacters ==
    GotConfig =>
        /\ cfgRet.result.outcome = "ok"
        /\ DOMAIN cfgRet.result.value.exchanges = DOMAIN cfgRet.pre.config.exchanges
        /\ \A n \in DOMAIN cfgRet.pre.config.exchanges :
            /\ cfgRet.result.value.exchanges[n].apiKey
                 = mask_key_by_chars(cfgRet.pre.config.exchanges[n].apiKey).value
            /\ cfgRet.result.value.exchanges[n].secret = SecretMask

\* C14: every store operation ends by returning success or an explicit
\* failure, whatever the environment and the input (an unresolvable home
\* directory, an unreadable or corrupt file, any stored API key); none ends
\* in a panic.
C14_EveryOperationReturns ==
    cfgRet.op # "none" => cfgRet.result.outcome \in {"ok", "err"}

PreConfig == IF cfgRet.pre.exists THEN cfgRet.pre.config ELSE EmptyConfig

\* C20: after any sequence of save_exchange and get_config calls made one
\* at a time, config.json holds for every saved name the apiKey, secret and
\* testnet of the last save_exchange for it, unredacted; a save_exchange
\* changes the entry of its name only and keeps the other entries and the
\* security and notifications sections; get_config never writes.
C20_LastSaveStoredUnredacted ==
    /\ \A n \in DOMAIN cfgSaved :
        /\ cfgFile.exists /\ cfgFile.parses
        /\ n \in DOMAIN cfgFile.config.exchanges
        /\ cfgFile.config.exchanges[n] = cfgSaved[n]
    /\ (cfgRet.op = "save_exchange" /\ cfgRet.result.outcome = "ok") =>
        /\ cfgRet.post.exists /\ cfgRet.post.parses
        /\ DOMAIN cfgRet.post.config.exchanges
             = DOMAIN PreConfig.exchanges \cup {cfgRet.name}
        /\ cfgRet.post.config.exchanges[cfgRet.name] = cfgRet.entry
        /\ \A n \in DOMAIN PreConfig.exchanges \ {cfgRet.name} :
              cfgRet.post.config.exchanges[n] = PreConfig.exchanges[n]
        /\ cfgRet.post.config.security = PreConfig.security
        /\ cfgRet.post.config.notifications = PreConfig.notifications
    /\ (cfgRet.op = "save_exchange" /\ cfgRet.result.outcome # "ok") =>
        cfgRet.post = cfgRet.pre
    /\ cfgRet.op = "get_config" => cfgRet.post = cfgRet.pre
    /\ cfgRet.op # "none" => cfgFile = cfgRet.post

\* get_config answers with redacted values while config.json holds a saved
\* entry for each name, the earlier entry overwritten, next to the security
\* and notifications sections it had
C20_Witness ==
    /\ cfgRet.op = "get_config" /\ cfgRet.result.outcome = "ok"
    /\ DOMAIN cfgSaved = ExchangeNames
    /\ cfgFile.config.exchanges["kraken"] # EarlierCfg.config.exchanges["kraken"]
    /\ cfgFile.config.exchanges["binance"].secret \in Secrets
    /\ cfgRet.result.value.exchanges["binance"].secret = SecretMask
    /\ cfgFile.config.security = EarlierCfg.config.security
    /\ cfgFile.config.notifications = EarlierCfg.config.notifications

(***************************************************************************)
(* Claims about the log tail                                               *)
(***************************************************************************)
TailedLog == logRet.op = "get_daemon_log" /\ logRet.result # HomePanic

\* C12: get_daemon_log(n) returns the last n lines of the log in their order:
\* all of them when n is at least the number of lines, none when n is 0, and
\* the empty sequence, not a failure, when the log does not exist.
C12_TailIsLastLines ==
    TailedLog =>
        /\ logRet.result.outcome = "ok"
        /\ LET all == logRet.written
               n == logRet.lines
               got == logRet.result.value
           IN  /\ Len(got) = (IF n < Len(all) THEN n ELSE Len(all))
               /\ \A i \in 1..Len(got) : got[i] = all[Len(all) - Len(got) + i]
               /\ n >= Len(all) => got = all
               /\ n = 0 => got = <<>>
               /\ ~logRet.exists => got = <<>>

\* A tail shorter than the log, whose lines differ and one of which ended in
\* a carriage return and a line feed
C12_Witness ==
    /\ TailedLog
    /\ logRet.lines = 2
    /\ Len(logRet.written) = 3
    /\ logRet.written[1] # logRet.written[2]
    /\ logRet.written[2] # logRet.written[3]
    /\ logRet.result.value = SubSeq(logRet.written, 2, 3)
    /\ \E i \in 1..Len(logFile.content) : logFile.content[i] = "\r"

(***************************************************************************)
(* Claims about on-demand prices                                           *)
(***************************************************************************)
GotPrices == priceRet.op = "get_prices" /\ priceRet.result.ok

\* C13: for every requested BASE/QUOTE symbol get_prices sends the symbol
\* with the "/" removed, and the snapshot it returns for it carries the
\* requested form with the "/" again.
C13_SymbolRoundTrip ==
    GotPrices =>
        /\ Len(priceRet.request) = Len(priceRet.symbols)
        /\ Len(priceRet.result.value) = Len(priceRet.symbols)
        /\ \A i \in 1..Len(priceRet.symbols) :
            /\ priceRet.request[i] = RemoveSlash(priceRet.symbols[i])
            /\ Slash \notin Range(priceRet.request[i])
            /\ priceRet.result.value[i].symbol = priceRet.symbols[i]

\* C18: get_prices never writes the price cache and never publishes an
\* event, whether it succeeds or fails; the cache and the events change only
\* in steps of the background loop.
C18_OnDemandLeavesCacheAndEvents ==
    [][/\ priceRet' # priceRet => UNCHANGED <<pricesCache, events>>
       /\ (pricesCache' # pricesCache \/ events' # events) => pollPc' # pollPc]_vars

\* An on-demand result next to a cache and an event that hold something else
C18_Witness ==
    /\ GotPrices
    /\ pricesCache # <<>>
    /\ pricesCache # priceRet.result.value
    /\ Len(events) = 1
    /\ events[1] # priceRet.result.value

(***************************************************************************)
(* Claims about the collection files                                       *)
(***************************************************************************)
Unparseable(file) == file.exists /\ ~file.parses

\* C16: when a collection file exists but does not parse, every command on
\* it (get_alerts, add_alert, remove_alert on alerts.json; get_dca_configs,
\* toggle_dca on dca.json) returns the parse diagnostic as a failure and
\* leaves the file as it is.
C16_CorruptFileFailsAndStays ==
    [][/\ (Unparseable(alertsFile) /\ ret' # ret) =>
            /\ ~ret'.ok
            /\ ret'.value = ParseDiagnostic
            /\ alertsFile' = alertsFile
       /\ (Unparseable(dcaFile) /\ dcaRet' # dcaRet) =>
            /\ ~dcaRet'.ok
            /\ dcaRet'.value = ParseDiagnostic
            /\ dcaFile' = dcaFile]_vars

\* Both files do not parse; remove_alert and toggle_dca have failed on them
C16_Witness ==
    /\ Unparseable(alertsFile) /\ Unparseable(dcaFile)
    /\ ret.op = "remove_alert" /\ ~ret.ok /\ ret.value = ParseDiagnostic
    /\ dcaRet.op = "toggle_dca" /\ ~dcaRet.ok /\ dcaRet.value = ParseDiagnostic

ToggleDone == dcaRet.op = "toggle_dca" /\ dcaRet.ok

FirstMatch(configs, id, i) ==
    /\ configs[i].id = id
    /\ \A j \in 1..(i - 1) : configs[j].id # id

\* C17: toggle_dca(id, enabled) sets the enabled flag of the first schedule
\* with that id and changes nothing else: the other fields, the other
\* schedules (later ones with the same id too) and the order stay; with no
\* such schedule it returns Ok and writes back what it loaded.
C17_ToggleFirstMatchOnly ==
    ToggleDone =>
        /\ dcaRet.post.exists /\ dcaRet.post.parses
        /\ Len(dcaRet.post.configs) = Len(dcaRet.before)
        /\ \A i \in 1..Len(dcaRet.before) :
            dcaRet.post.configs[i] =
                IF FirstMatch(dcaRet.before, dcaRet.id, i)
                THEN [dcaRet.before[i] EXCEPT !.enabled = dcaRet.enabled]
                ELSE dcaRet.before[i]

\* A toggle that changed the first of two schedules with the id and left
\* the second one disabled
C17_Witness ==
    /\ ToggleDone
    /\ dcaRet.enabled
    /\ \E i, j \in 1..Len(dcaRet.before) :
        /\ i < j
        /\ dcaRet.before[i].id = dcaRet.id /\ dcaRet.before[j].id = dcaRet.id
        /\ ~dcaRet.before[i].enabled
        /\ dcaRet.post.configs[i].enabled
        /\ ~dcaRet.post.configs[j].enabled

====
